---- MODULE Spec2Model ----
(***************************************************************************)
(* tinySQL: the pager, the page layout and the B+ tree of src/main.go.     *)
(*                                                                         *)
(* A page is modelled byte for byte.  A page buffer is a function from the *)
(* offsets that hold a non-zero byte to that byte (every other offset of   *)
(* 0..PAGE_SIZE-1 holds 0), so that every accessor of the source is an     *)
(* offset computation on the same bytes, as in the Go code: fields that    *)
(* the layout constants make overlap do overlap here, and a copy() between *)
(* two tail slices moves every byte up to the end of the page.             *)
(*                                                                         *)
(* A uint32 is modelled by the integer with the same 32 bits in two's      *)
(* complement (0xFFFFFFFF is -1): the model checker's integers are 32 bits *)
(* wide.  ULess is the unsigned order.                                     *)
(***************************************************************************)
EXTENDS Integers, Sequences, FiniteSets, TLC

(***************************************************************************)
(* Bounds of the model (inputs drawn by the actions).                      *)
(***************************************************************************)
\* Spec: insert statements carry an id in 0..MaxKey.
MaxKey == 2

\* SpecFill: the ids that fill the root leaf are KeyStep apart.
KeyStep == 2

\* SpecRooted: the session has at most MaxRows successful inserts.
MaxRows == 36

\* SpecPrepare: the insert lines carry an id in -1..MaxLineId.
MaxLineId == 1

\* SpecPrepare: the integer typed as the id is id + wraps * 2^32, with wraps
\* in 0..MaxWrap.
MaxWrap == 1

\* SpecDesc: the ids are in 0..MaxDesc, inserted in descending order.
MaxDesc == 4

(***************************************************************************)
(* Program constants.                                                      *)
(***************************************************************************)
INVALID_PAGE_NUM == -1
COLUMN_USERNAME_SIZE == 32
COLUMN_EMAIL_SIZE == 255
PAGE_SIZE == 4096
TABLE_MAX_PAGES == 100
ID_SIZE == 4
USERNAME_SIZE == COLUMN_USERNAME_SIZE
EMAIL_SIZE == COLUMN_EMAIL_SIZE
ID_OFFSET == 0
USERNAME_OFFSET == ID_OFFSET + ID_SIZE
EMAIL_OFFSET == USERNAME_OFFSET + USERNAME_SIZE
ROW_SIZE == ID_SIZE + USERNAME_SIZE + EMAIL_SIZE

NODE_INTERNAL == 0
NODE_LEAF == 1

NODE_TYPE_SIZE == 1
NODE_TYPE_OFFSET == 0
IS_ROOT_SIZE == 1
IS_ROOT_OFFSET == NODE_TYPE_SIZE
PARENT_POINTER_SIZE == 4
PARENT_POINTER_OFFSET == IS_ROOT_OFFSET + IS_ROOT_SIZE
COMMON_NODE_HEADER_SIZE == NODE_TYPE_SIZE + IS_ROOT_SIZE + PARENT_POINTER_SIZE
LEAF_NODE_NUM_CELLS_SIZE == 4
LEAF_NODE_NUM_CELLS_OFFSET == COMMON_NODE_HEADER_SIZE
LEAF_NODE_NEXT_LEAF_SIZE == 4
LEAF_NODE_NEXT_LEAF_OFFSET == LEAF_NODE_NUM_CELLS_OFFSET + LEAF_NODE_NEXT_LEAF_SIZE
LEAF_NODE_HEADER_SIZE == COMMON_NODE_HEADER_SIZE + LEAF_NODE_NUM_CELLS_SIZE
LEAF_NODE_KEY_SIZE == 4
LEAF_NODE_KEY_OFFSET == 0
LEAF_NODE_VALUE_OFFSET == LEAF_NODE_KEY_OFFSET + LEAF_NODE_KEY_SIZE
LEAF_NODE_VALUE_SIZE == ROW_SIZE
LEAF_NODE_CELL_SIZE == LEAF_NODE_KEY_SIZE + LEAF_NODE_VALUE_SIZE
LEAF_NODE_SPACE_FOR_CELLS == PAGE_SIZE - LEAF_NODE_HEADER_SIZE
LEAF_NODE_MAX_CELLS == LEAF_NODE_SPACE_FOR_CELLS \div LEAF_NODE_CELL_SIZE
LEAF_NODE_RIGHT_SPLIT_COUNT == (LEAF_NODE_MAX_CELLS + 1) \div 2
LEAF_NODE_LEFT_SPLIT_COUNT == LEAF_NODE_MAX_CELLS + 1 - LEAF_NODE_RIGHT_SPLIT_COUNT

INTERNAL_NODE_NUM_KEYS_SIZE == 4
INTERNAL_NODE_NUM_KEYS_OFFSET == COMMON_NODE_HEADER_SIZE
INTERNAL_NODE_RIGHT_CHILD_SIZE == 4
INTERNAL_NODE_RIGHT_CHILD_OFFSET == INTERNAL_NODE_NUM_KEYS_OFFSET + INTERNAL_NODE_NUM_KEYS_SIZE
INTERNAL_NODE_HEADER_SIZE == COMMON_NODE_HEADER_SIZE + INTERNAL_NODE_NUM_KEYS_SIZE + INTERNAL_NODE_RIGHT_CHILD_SIZE
INTERNAL_NODE_KEY_SIZE == 4
INTERNAL_NODE_CHILD_SIZE == 4
INTERNAL_NODE_CELL_SIZE == INTERNAL_NODE_CHILD_SIZE + INTERNAL_NODE_KEY_SIZE
INTERNAL_NODE_MAX_CELLS == 3

(***************************************************************************)
(* uint32 arithmetic on the two's complement representation.               *)
(***************************************************************************)
\* a < b as unsigned 32-bit values.
ULess(a, b) == IF (a >= 0) = (b >= 0) THEN a < b ELSE a >= 0

\* x - 1 in uint32: at 0 it is -1, which is 0xFFFFFFFF.
UDec(x) == x - 1

\* The largest and the smallest element of a set of numbers.
MaxOf(S) == CHOOSE x \in S : \A y \in S : y <= x

MinOf(S) == CHOOSE x \in S : \A y \in S : x <= y

(***************************************************************************)
(* Byte buffers.                                                           *)
(***************************************************************************)
\* make([]byte, PAGE_SIZE): all zero.
ZeroPage == [x \in {} |-> 0]

\* buf[o].
Byte(buf, o) == IF o \in DOMAIN buf THEN buf[o] ELSE 0

\* buf[off : off+n], rebased to offset 0.
Slice(buf, off, n) ==
    [k \in {x - off : x \in {y \in DOMAIN buf : y >= off /\ y < off + n}} |-> buf[k + off]]

\* buf with the n bytes at off replaced by the bytes s (s rebased to 0).
Store(buf, off, n, s) ==
    [x \in {off + k : k \in {j \in DOMAIN s : j < n}} |-> s[x - off]]
        @@ [x \in {y \in DOMAIN buf : y < off \/ y >= off + n} |-> buf[x]]

\* The byte sequence of a Go string (a sequence of non-zero bytes) as a buffer.
Bytes(str) == [k \in 0 .. Len(str) - 1 |-> str[k + 1]]

\* The four little-endian bytes of the uint32 v.
LE32(v) ==
    LET b(i) == IF i < 3 THEN (v \div (256 ^ i)) % 256
                ELSE IF v >= 0 THEN v \div 16777216 ELSE 256 + (v \div 16777216)
    IN [k \in {i \in 0 .. 3 : b(i) # 0} |-> b(k)]

\* *(*uint32)(unsafe.Pointer(&buf[off])) and binary.LittleEndian.Uint32.
GetU32(buf, off) ==
    LET b3 == Byte(buf, off + 3)
    IN Byte(buf, off) + 256 * Byte(buf, off + 1) + 65536 * Byte(buf, off + 2)
       + 16777216 * (IF b3 >= 128 THEN b3 - 256 ELSE b3)

\* *(*uint32)(unsafe.Pointer(&buf[off])) = v and binary.LittleEndian.PutUint32.
PutU32(buf, off, v) == Store(buf, off, 4, LE32(v))

\* copy(dst[dstOff:], src[srcOff:]): Go copies min(len(dst), len(src)) bytes,
\* that is, everything up to the end of the shorter tail slice; an overlapping
\* copy reads the source as it was before the call.
CopyTail(dst, dstOff, src, srcOff) ==
    LET n == IF dstOff >= srcOff THEN PAGE_SIZE - dstOff ELSE PAGE_SIZE - srcOff
    IN Store(dst, dstOff, n, Slice(src, srcOff, n))

(***************************************************************************)
(* The running program.  A machine state m is the record                   *)
(*   pages      the cache pager.pages: page number -> buffer, for the      *)
(*              slots that are not nil                                     *)
(*   numPages   pager.numPages                                             *)
(*   fileLength pager.fileLength, in bytes                                 *)
(*   disk       the database file: page number -> the 4096 bytes at        *)
(*              offset pageNum * PAGE_SIZE, for the pages the file holds   *)
(*   status     "running"; "fatal" after os.Exit(1); "panic" after a Go    *)
(*              run-time panic (index or slice bounds out of range);       *)
(*              "exited" after os.Exit(0)                                  *)
(* Every function of the source that takes the table or the pager is an    *)
(* operator from machine states to machine states; once the process has    *)
(* terminated nothing changes any more.  table.rootPageNum is always 0.    *)
(***************************************************************************)
rootPageNum == 0

Running(m) == m.status = "running"

\* os.Exit(1) after a diagnostic.
Fatal(m) == IF Running(m) THEN [m EXCEPT !.status = "fatal"] ELSE m

\* A run-time panic of the Go program.
Panic(m) == IF Running(m) THEN [m EXCEPT !.status = "panic"] ELSE m

\* &buf[off] exists: off indexes the 4096 bytes of a page (a uint32 offset
\* that wrapped around is negative here).
InBuf(off) == off >= 0 /\ off < PAGE_SIZE

\* The buffer of a cached page (the slice getPage returned).  Once the
\* process has terminated there is nothing to read: the zero page stands in.
Node(m, pageNum) ==
    IF Running(m) /\ pageNum \in DOMAIN m.pages THEN m.pages[pageNum] ELSE ZeroPage

\* m with the cached page's buffer replaced.
SetNode(m, pageNum, buf) ==
    IF Running(m) /\ pageNum \in DOMAIN m.pages THEN [m EXCEPT !.pages[pageNum] = buf] ELSE m

\* ceil(fileLength / PAGE_SIZE), as pagerOpen and getPage compute it.
FilePages(fileLength) ==
    (fileLength \div PAGE_SIZE) + (IF fileLength % PAGE_SIZE # 0 THEN 1 ELSE 0)

\* syscall.Pread of one page: bytes past the end of the file are not read
\* and the buffer keeps its zeroes.
Pread(disk, pageNum) == IF pageNum \in DOMAIN disk THEN disk[pageNum] ELSE ZeroPage

pagerOpen(disk) ==
    LET fileLength == PAGE_SIZE * Cardinality(DOMAIN disk)
    IN [pages |-> [x \in {} |-> ZeroPage],
        numPages |-> FilePages(fileLength),
        fileLength |-> fileLength,
        disk |-> disk,
        status |-> "running"]

getPage(m, pageNum) ==
    IF ~Running(m) THEN m
    ELSE IF ULess(TABLE_MAX_PAGES, pageNum) THEN Fatal(m)
    ELSE IF pageNum >= TABLE_MAX_PAGES THEN Panic(m)
    ELSE IF pageNum \in DOMAIN m.pages THEN m
    ELSE LET numPages == FilePages(m.fileLength)
             page == IF pageNum <= numPages THEN Pread(m.disk, pageNum) ELSE ZeroPage
         IN [m EXCEPT !.pages = (pageNum :> page) @@ m.pages,
                      !.numPages = IF pageNum >= m.numPages THEN pageNum + 1 ELSE @]

\* syscall.Pwrite of the page at offset pageNum * PAGE_SIZE: the file grows
\* to hold it, the gap reading as zeroes.
Pwrite(disk, pageNum, buf) ==
    LET n == Cardinality(DOMAIN disk)
        last == IF pageNum >= n THEN pageNum ELSE n - 1
    IN [i \in 0 .. last |-> IF i = pageNum THEN buf
                            ELSE IF i \in DOMAIN disk THEN disk[i] ELSE ZeroPage]

\* pagerFlush without the write.
pagerFlushNoWrite(m, pageNum) ==
    IF ~Running(m) THEN m
    ELSE IF pageNum \notin DOMAIN m.pages THEN Fatal(m)
    ELSE m

pagerFlush(m, pageNum) ==
    IF ~Running(m) THEN m
    ELSE IF pageNum \notin DOMAIN m.pages THEN Fatal(m)
    ELSE [m EXCEPT !.disk = Pwrite(m.disk, pageNum, m.pages[pageNum])]

\* A getUnusedPageNum that gives the last page number in use.
getUnusedPageNumLast(m) == m.numPages - 1

getUnusedPageNum(m) == m.numPages

\* dbClose: the pages 0 .. numPages-1 that are cached are flushed in
\* increasing order and their slots set to nil; then every slot is nil.
\* The loop passes over the slots that are nil: from i it continues at the
\* next cached page, if there is one below numPages.
CachedFrom(m, i) == {p \in DOMAIN m.pages : p >= i /\ p < m.numPages}

RECURSIVE dbCloseFrom(_, _)

\* "pagerFlush(pager, i)" and the rest of the loop.
dbCloseFlush(m, i) == dbCloseFrom(pagerFlush(m, i), i + 1)

dbCloseFrom(m, i) ==
    IF ~Running(m) \/ CachedFrom(m, i) = {} THEN m
    ELSE dbCloseFlush(m, MinOf(CachedFrom(m, i)))

dbClose(m) ==
    IF Running(dbCloseFrom(m, 0))
    THEN [dbCloseFrom(m, 0) EXCEPT !.pages = [x \in {} |-> ZeroPage]]
    ELSE dbCloseFrom(m, 0)

(***************************************************************************)
(* Node header and cell accessors.  An accessor that returns a pointer or  *)
(* a slice in the source is an offset here (leafNodeCell, leafNodeValue,   *)
(* internalNodeCell) or a read of the pointed value, the write being       *)
(* PutU32 at the same offset.                                              *)
(***************************************************************************)
\* The 8 bytes at offset 0 are read as a uint and converted to the uint8
\* Nodetype: the low byte, which is byte 0.
getNodeType(node) == Byte(node, NODE_TYPE_OFFSET)

setNodeType(node, typ) == Store(node, NODE_TYPE_OFFSET, 1, LE32(typ))

isNodeRoot(node) == Byte(node, IS_ROOT_OFFSET) # 0

setNodeRoot(node, isRoot) ==
    Store(node, IS_ROOT_OFFSET, 1, LE32(IF isRoot THEN 1 ELSE 0))

nodeParent(node) == GetU32(node, PARENT_POINTER_OFFSET)

setNodeParent(node, v) == PutU32(node, PARENT_POINTER_OFFSET, v)

leafNodeNumcells(node) == GetU32(node, LEAF_NODE_NUM_CELLS_OFFSET)

setLeafNodeNumcells(node, v) == PutU32(node, LEAF_NODE_NUM_CELLS_OFFSET, v)

leafNodeCell(cellNum) == LEAF_NODE_HEADER_SIZE + cellNum * LEAF_NODE_CELL_SIZE

leafNodeKey(node, cellNum) == GetU32(node, leafNodeCell(cellNum) + LEAF_NODE_KEY_OFFSET)

setLeafNodeKey(node, cellNum, v) ==
    PutU32(node, leafNodeCell(cellNum) + LEAF_NODE_KEY_OFFSET, v)

leafNodeValue(cellNum) == leafNodeCell(cellNum) + LEAF_NODE_VALUE_OFFSET

leafNodeNextLeaf(node) == GetU32(node, LEAF_NODE_NEXT_LEAF_OFFSET)

setLeafNodeNextLeaf(node, v) == PutU32(node, LEAF_NODE_NEXT_LEAF_OFFSET, v)

initializeLeafNode(node) ==
    setLeafNodeNextLeaf(
        setLeafNodeNumcells(setNodeRoot(setNodeType(node, NODE_LEAF), FALSE), 0), 0)

internalNodeNumKeys(node) == GetU32(node, INTERNAL_NODE_NUM_KEYS_OFFSET)

setInternalNodeNumKeys(node, v) == PutU32(node, INTERNAL_NODE_NUM_KEYS_OFFSET, v)

internalNodeRightChild(node) == GetU32(node, INTERNAL_NODE_RIGHT_CHILD_OFFSET)

setInternalNodeRightChild(node, v) == PutU32(node, INTERNAL_NODE_RIGHT_CHILD_OFFSET, v)

internalNodeCell(cellNum) == INTERNAL_NODE_HEADER_SIZE + cellNum * INTERNAL_NODE_CELL_SIZE

internalNodeKey(node, keyNum) ==
    GetU32(node, internalNodeCell(keyNum) + INTERNAL_NODE_CHILD_SIZE)

setInternalNodeKey(node, keyNum, v) ==
    PutU32(node, internalNodeCell(keyNum) + INTERNAL_NODE_CHILD_SIZE, v)

\* internalNodeChild(node, childNum) returns a pointer, after its checks:
\* "ok" when the pointer is returned, "fatal" when the call ends in
\* os.Exit(1).  The checks read the word the pointer names, also when
\* the caller is about to overwrite it.
internalNodeChildCheck(node, childNum) ==
    LET numKeys == internalNodeNumKeys(node)
    IN IF ULess(numKeys, childNum) THEN "fatal"
       ELSE IF childNum = numKeys
            THEN (IF internalNodeRightChild(node) = INVALID_PAGE_NUM THEN "fatal" ELSE "ok")
       ELSE IF GetU32(node, internalNodeCell(childNum)) = INVALID_PAGE_NUM THEN "fatal"
       ELSE "ok"

\* The offset internalNodeChild's pointer names.
internalNodeChildOff(node, childNum) ==
    IF childNum = internalNodeNumKeys(node) THEN INTERNAL_NODE_RIGHT_CHILD_OFFSET
    ELSE internalNodeCell(childNum)

\* *internalNodeChild(node, childNum), when the checks pass.
internalNodeChild(node, childNum) == GetU32(node, internalNodeChildOff(node, childNum))

initializeInternalNode(node) ==
    setInternalNodeRightChild(
        setInternalNodeNumKeys(setNodeRoot(setNodeType(node, NODE_INTERNAL), FALSE), 0),
        INVALID_PAGE_NUM)

(***************************************************************************)
(* Rows.  A row is [id, username, email]; the strings are sequences of     *)
(* non-zero bytes, as strings.Fields cuts them from the input line.        *)
(***************************************************************************)
\* serializeRow(source, destination) with destination = node[off:]: the id,
\* then len(username) bytes at USERNAME_OFFSET, then len(email) bytes at
\* EMAIL_OFFSET; no other byte of the destination is written.
serializeRow(node, off, source) ==
    LET a == PutU32(node, off + ID_OFFSET, source.id)
        b == Store(a, off + USERNAME_OFFSET, Len(source.username), Bytes(source.username))
    IN Store(b, off + EMAIL_OFFSET, Len(source.email), Bytes(source.email))

\* deserializeRow(destination, source) with source = node[off:]: the strings
\* are the whole fixed-width slices, NUL bytes included.
deserializeRow(node, off) ==
    [id |-> GetU32(node, off + ID_OFFSET),
     username |-> Slice(node, off + USERNAME_OFFSET, USERNAME_SIZE),
     email |-> Slice(node, off + EMAIL_OFFSET, EMAIL_SIZE)]

(***************************************************************************)
(* Statements on a cached page.  "*nodeParent(node) = v" with node the     *)
(* buffer of page pageNum is SetParent(m, pageNum, v), and so on: a        *)
(* function body of the source is the composition of its statements, the   *)
(* machine state running through them.  Where a body computes a value it   *)
(* uses again, the rest of the body is an operator of its own that takes   *)
(* the value as a parameter.                                               *)
(***************************************************************************)
SetParent(m, pageNum, v) == SetNode(m, pageNum, setNodeParent(Node(m, pageNum), v))

SetNumCells(m, pageNum, v) == SetNode(m, pageNum, setLeafNodeNumcells(Node(m, pageNum), v))

SetNextLeaf(m, pageNum, v) == SetNode(m, pageNum, setLeafNodeNextLeaf(Node(m, pageNum), v))

SetNumKeys(m, pageNum, v) == SetNode(m, pageNum, setInternalNodeNumKeys(Node(m, pageNum), v))

SetRightChild(m, pageNum, v) ==
    SetNode(m, pageNum, setInternalNodeRightChild(Node(m, pageNum), v))

SetKey(m, pageNum, keyNum, v) ==
    SetNode(m, pageNum, setInternalNodeKey(Node(m, pageNum), keyNum, v))

InitLeaf(m, pageNum) == SetNode(m, pageNum, initializeLeafNode(Node(m, pageNum)))

InitInternal(m, pageNum) == SetNode(m, pageNum, initializeInternalNode(Node(m, pageNum)))

\* *internalNodeChild(node, childNum) read on page pageNum: [m, v], the
\* process ending in os.Exit(1) when a check of internalNodeChild fails.
ReadChild(m, pageNum, childNum) ==
    IF internalNodeChildCheck(Node(m, pageNum), childNum) = "ok"
    THEN [m |-> m, v |-> internalNodeChild(Node(m, pageNum), childNum)]
    ELSE [m |-> Fatal(m), v |-> 0]

\* *internalNodeChild(node, childNum) = v on page pageNum.
SetChild(m, pageNum, childNum, v) ==
    IF internalNodeChildCheck(Node(m, pageNum), childNum) = "ok"
    THEN SetNode(m, pageNum,
                 PutU32(Node(m, pageNum), internalNodeChildOff(Node(m, pageNum), childNum), v))
    ELSE Fatal(m)

(***************************************************************************)
(* Lookup.  A cursor is [pageNum, cellNum, endOfTable].  An operator that  *)
(* returns a value and may load pages returns [m, v] or [m, cursor].       *)
(***************************************************************************)
NoCursor == [pageNum |-> 0, cellNum |-> 0, endOfTable |-> FALSE]

\* The index of the last cell of a leaf, numCells - 1 in uint32.
LastCell(node) == UDec(leafNodeNumcells(node))

RECURSIVE getNodeMaxKey(_, _)
getNodeMaxKey(m, pageNum) ==
    IF ~Running(m) THEN [m |-> m, v |-> 0]
    ELSE IF getNodeType(Node(m, pageNum)) = NODE_LEAF
    THEN IF InBuf(leafNodeCell(LastCell(Node(m, pageNum))))
         THEN [m |-> m, v |-> leafNodeKey(Node(m, pageNum), LastCell(Node(m, pageNum)))]
         ELSE [m |-> Panic(m), v |-> 0]
    ELSE getNodeMaxKey(getPage(m, internalNodeRightChild(Node(m, pageNum))),
                       internalNodeRightChild(Node(m, pageNum)))

\* index := (minIndex + onePastMaxIndex) / 2
Mid(a, b) == (a + b) \div 2

\* The binary search of leafNodeFind: the cell number, or -1 when an index
\* falls outside the page (a panic).
RECURSIVE leafNodeFindLoop(_, _, _, _)
leafNodeFindLoop(node, key, minIndex, onePastMaxIndex) ==
    IF onePastMaxIndex = minIndex THEN minIndex
    ELSE IF ~InBuf(leafNodeCell(Mid(minIndex, onePastMaxIndex))) THEN -1
    ELSE IF key = leafNodeKey(node, Mid(minIndex, onePastMaxIndex))
         THEN Mid(minIndex, onePastMaxIndex)
    ELSE IF ULess(key, leafNodeKey(node, Mid(minIndex, onePastMaxIndex)))
         THEN leafNodeFindLoop(node, key, minIndex, Mid(minIndex, onePastMaxIndex))
         ELSE leafNodeFindLoop(node, key, Mid(minIndex, onePastMaxIndex) + 1, onePastMaxIndex)

\* The cursor leafNodeFind returns, cell being the result of its search.
leafCursor(m, pageNum, cell) ==
    [m |-> IF cell < 0 THEN Panic(m) ELSE m,
     cursor |-> [pageNum |-> pageNum, cellNum |-> cell, endOfTable |-> FALSE]]

\* leafNodeFind once the page is loaded.
leafNodeFindIn(m, pageNum, key) ==
    leafCursor(m, pageNum,
               IF leafNodeNumcells(Node(m, pageNum)) < 0 THEN -1
               ELSE leafNodeFindLoop(Node(m, pageNum), key, 0,
                                     leafNodeNumcells(Node(m, pageNum))))

leafNodeFind(m, pageNum, key) == leafNodeFindIn(getPage(m, pageNum), pageNum, key)

\* The binary search with the test keyToRight > key in place of
\* keyToRight >= key.
RECURSIVE internalNodeFindLoopStrict(_, _, _, _)
internalNodeFindLoopStrict(node, key, minIndex, maxIndex) ==
    IF minIndex = maxIndex THEN minIndex
    ELSE IF ULess(key, internalNodeKey(node, Mid(minIndex, maxIndex)))
         THEN internalNodeFindLoopStrict(node, key, minIndex, Mid(minIndex, maxIndex))
         ELSE internalNodeFindLoopStrict(node, key, Mid(minIndex, maxIndex) + 1, maxIndex)

\* The binary search of internalNodeFindChild and internalNodeFind.
RECURSIVE internalNodeFindLoop(_, _, _, _)
internalNodeFindLoop(node, key, minIndex, maxIndex) ==
    IF minIndex = maxIndex THEN minIndex
    ELSE IF ~ULess(internalNodeKey(node, Mid(minIndex, maxIndex)), key)
         THEN internalNodeFindLoop(node, key, minIndex, Mid(minIndex, maxIndex))
         ELSE internalNodeFindLoop(node, key, Mid(minIndex, maxIndex) + 1, maxIndex)

internalNodeFindChild(node, key) ==
    internalNodeFindLoop(node, key, 0, internalNodeNumKeys(node))

RECURSIVE internalNodeFind(_, _, _)

\* The switch of internalNodeFind on the type of the child, once loaded.
internalNodeFindSwitch(m, key, childNum) ==
    IF getNodeType(Node(m, childNum)) = NODE_INTERNAL THEN internalNodeFind(m, key, childNum)
    ELSE IF getNodeType(Node(m, childNum)) = NODE_LEAF THEN leafNodeFind(m, childNum, key)
    ELSE [m |-> Panic(m), cursor |-> NoCursor]

\* internalNodeFind from the child number on: child is [m, v].
internalNodeFindDown(child, key) ==
    internalNodeFindSwitch(getPage(child.m, child.v), key, child.v)

\* internalNodeFind once the page is loaded.
internalNodeFindIn(m, key, pageNum) ==
    internalNodeFindDown(
        ReadChild(m, pageNum,
                  internalNodeFindLoop(Node(m, pageNum), key, 0,
                                       internalNodeNumKeys(Node(m, pageNum)))),
        key)

internalNodeFind(m, key, pageNum) ==
    IF ~Running(m) THEN [m |-> m, cursor |-> NoCursor]
    ELSE internalNodeFindIn(getPage(m, pageNum), key, pageNum)

\* tableFind once the root page is loaded.
tableFindIn(m, key) ==
    IF getNodeType(Node(m, rootPageNum)) = NODE_LEAF
    THEN leafNodeFind(m, rootPageNum, key)
    ELSE internalNodeFind(m, key, rootPageNum)

tableFind(m, key) == tableFindIn(getPage(m, rootPageNum), key)

(***************************************************************************)
(* Insertion.                                                              *)
(***************************************************************************)
updateInternalNodeKey(node, oldKey, newKey) ==
    setInternalNodeKey(node, internalNodeFindChild(node, oldKey), newKey)

\* The shift loop of internalNodeInsert:
\* for i := originalNumKeys; i > index; i-- { copy(cell(i), cell(i-1)) }.
RECURSIVE internalShift(_, _, _)
internalShift(node, i, index) ==
    IF i <= index THEN node
    ELSE internalShift(CopyTail(node, internalNodeCell(i), node, internalNodeCell(i - 1)),
                       i - 1, index)

\* The shift loop of leafNodeInsert:
\* for i := numCells; i > cursor.cellNum; i-- { copy(cell(i), cell(i-1)) }.
RECURSIVE leafShift(_, _, _)
leafShift(node, i, cellNum) ==
    IF i <= cellNum THEN node
    ELSE leafShift(CopyTail(node, leafNodeCell(i), node, leafNodeCell(i - 1)), i - 1, cellNum)

\* child := getPage(pager, c); *nodeParent(child) = parentPageNum, c being
\* the [m, v] of a child pointer that was read.
Reparent(c, parentPageNum) == SetParent(getPage(c.m, c.v), c.v, parentPageNum)

\* The reparenting loop of createNewRoot over the cells of the left child:
\* for i := 0; i < numKeys(leftChild); i++ { parent(child(i)) = leftChildPageNum }.
RECURSIVE reparentChildren(_, _, _)
reparentChildren(m, leftChildPageNum, i) ==
    IF ~Running(m) \/ ~ULess(i, internalNodeNumKeys(Node(m, leftChildPageNum))) THEN m
    ELSE reparentChildren(Reparent(ReadChild(m, leftChildPageNum, i), leftChildPageNum),
                          leftChildPageNum, i + 1)

\* createNewRoot, after the reparenting loop:
\* child := getPage(pager, *internalNodeRightChild(leftChild)); *nodeParent(child) = ...
reparentRightChild(m, leftChildPageNum) ==
    IF ~Running(m) THEN m ELSE
    Reparent([m |-> m, v |-> internalNodeRightChild(Node(m, leftChildPageNum))],
             leftChildPageNum)

\* createNewRoot, "if getNodeType(leftChild) == NODE_INTERNAL { ... }".
createNewRootReparent(m, leftChildPageNum) ==
    IF ~Running(m) THEN m ELSE
    IF getNodeType(Node(m, leftChildPageNum)) = NODE_INTERNAL
    THEN reparentRightChild(reparentChildren(m, leftChildPageNum, 0), leftChildPageNum)
    ELSE m

\* createNewRoot: initializeInternalNode(root); setNodeRoot(root, true);
\* *internalNodeNumKeys(root) = 1.
createNewRootInit(m) ==
    IF ~Running(m) THEN m ELSE
    SetNumKeys(SetNode(m, rootPageNum,
                       setNodeRoot(initializeInternalNode(Node(m, rootPageNum)), TRUE)),
               rootPageNum, 1)

\* createNewRootLink without the write of the root's right_child.
createNewRootLinkNoRight(leftChildMaxKey, leftChildPageNum, rightChildPageNum) ==
    IF ~Running(leftChildMaxKey.m) THEN leftChildMaxKey.m ELSE
    SetParent(
        SetParent(
            SetKey(leftChildMaxKey.m, rootPageNum, 0, leftChildMaxKey.v),
            leftChildPageNum, rootPageNum),
        rightChildPageNum, rootPageNum)

\* createNewRoot from "*internalNodeKey(root, 0) = leftChildMaxKey" on.
createNewRootLink(leftChildMaxKey, leftChildPageNum, rightChildPageNum) ==
    IF ~Running(leftChildMaxKey.m) THEN leftChildMaxKey.m ELSE
    SetParent(
        SetParent(
            SetRightChild(SetKey(leftChildMaxKey.m, rootPageNum, 0, leftChildMaxKey.v),
                          rootPageNum, rightChildPageNum),
            leftChildPageNum, rootPageNum),
        rightChildPageNum, rootPageNum)

\* createNewRoot from "copy(leftChild, root)" on.
createNewRootCopy(m, leftChildPageNum, rightChildPageNum) ==
    IF ~Running(m) THEN m ELSE
    createNewRootLink(
        getNodeMaxKey(
            SetChild(
                createNewRootInit(
                    createNewRootReparent(
                        SetNode(m, leftChildPageNum, setNodeRoot(Node(m, rootPageNum), FALSE)),
                        leftChildPageNum)),
                rootPageNum, 0, leftChildPageNum),
            leftChildPageNum),
        leftChildPageNum, rightChildPageNum)

\* createNewRoot once root, rightChild and leftChild are loaded.
createNewRootIn(m, leftChildPageNum, rightChildPageNum) ==
    IF ~Running(m) THEN m ELSE
    createNewRootCopy(
        IF getNodeType(Node(m, rootPageNum)) = NODE_INTERNAL
        THEN InitInternal(InitInternal(m, rightChildPageNum), leftChildPageNum)
        ELSE m,
        leftChildPageNum, rightChildPageNum)

\* createNewRoot once root and rightChild are loaded.
createNewRootAlloc(m, rightChildPageNum) ==
    IF ~Running(m) THEN m ELSE
    createNewRootIn(getPage(m, getUnusedPageNum(m)), getUnusedPageNum(m), rightChildPageNum)

createNewRoot(m, rightChildPageNum) ==
    createNewRootAlloc(getPage(getPage(m, rootPageNum), rightChildPageNum), rightChildPageNum)

\* (*oldNumKeys)-- on the internal node of page pageNum.
decNumKeys(m, pageNum) ==
    SetNumKeys(m, pageNum, UDec(internalNodeNumKeys(Node(m, pageNum))))

\* An internalNodeSplitAndInsert that returns to its caller at once.
internalNodeSplitReturns(m, parentPageNum, childPageNum) == m

RECURSIVE internalNodeInsert(_, _, _)
RECURSIVE internalNodeSplitAndInsert(_, _, _)

\* internalNodeSplitAndInsert moves a child to the new node, cur being the
\* [m, v] of the child pointer read:
\* cur = getPage(curPageNum); internalNodeInsert(table, newPageNum, curPageNum);
\* *nodeParent(cur) = newPageNum.
moveChild(cur, newPageNum) ==
    IF ~Running(cur.m) THEN cur.m ELSE
    SetParent(internalNodeInsert(getPage(cur.m, cur.v), newPageNum, cur.v), cur.v, newPageNum)

\* The loop of internalNodeSplitAndInsert that moves the upper children of
\* the old node to the new node:
\* for i := INTERNAL_NODE_MAX_CELLS - 1; i > INTERNAL_NODE_MAX_CELLS/2; i--.
RECURSIVE splitMoveLoop(_, _, _, _)
splitMoveLoop(m, oldPageNum, newPageNum, i) ==
    IF ~Running(m) \/ i <= INTERNAL_NODE_MAX_CELLS \div 2 THEN m
    ELSE splitMoveLoop(decNumKeys(moveChild(ReadChild(m, oldPageNum, i), newPageNum),
                                  oldPageNum),
                       oldPageNum, newPageNum, i - 1)

\* internalNodeSplitAndInsert, "if splittingRoot { ... }" after
\* createNewRoot: [m, oldPageNum, parent].
splitRootBranch(m) ==
    IF ~Running(m) THEN [m |-> m, oldPageNum |-> 0, parent |-> 0] ELSE
    [m |-> getPage(ReadChild(m, rootPageNum, 0).m, ReadChild(m, rootPageNum, 0).v),
     oldPageNum |-> ReadChild(m, rootPageNum, 0).v,
     parent |-> rootPageNum]

\* internalNodeSplitAndInsert, "if splittingRoot { ... } else { ... }":
\* the machine state after it, the page of oldNode and the page of parent.
splitBranch(m, parentPageNum, newPageNum) ==
    IF ~Running(m) THEN [m |-> m, oldPageNum |-> 0, parent |-> 0] ELSE
    IF isNodeRoot(Node(m, parentPageNum))
    THEN splitRootBranch(getPage(createNewRoot(m, newPageNum), rootPageNum))
    ELSE [m |-> InitInternal(getPage(getPage(m, nodeParent(Node(m, parentPageNum))),
                                     newPageNum),
                             newPageNum),
          oldPageNum |-> parentPageNum,
          parent |-> nodeParent(Node(m, parentPageNum))]

\* internalNodeSplitAndInsert, "if !splittingRoot { ... }" after the call
\* of internalNodeInsert.
splitLinkNew(m, oldPageNum, newPageNum) ==
    IF ~Running(m) THEN m ELSE
    SetParent(m, newPageNum, nodeParent(Node(m, oldPageNum)))

\* internalNodeSplitAndInsert from "if !splittingRoot" on.
splitFinish(m, oldPageNum, newPageNum, splittingRoot) ==
    IF ~Running(m) THEN m ELSE
    IF splittingRoot THEN m
    ELSE splitLinkNew(internalNodeInsert(m, nodeParent(Node(m, oldPageNum)), newPageNum),
                      oldPageNum, newPageNum)

\* internalNodeSplitAndInsert, "updateInternalNodeKey(parent, oldMax,
\* getNodeMaxKey(pager, oldNode))" and what follows.
splitUpdateKey(newOldMax, oldPageNum, parent, newPageNum, splittingRoot, oldMax) ==
    IF ~Running(newOldMax.m) THEN newOldMax.m ELSE
    splitFinish(SetNode(newOldMax.m, parent,
                        updateInternalNodeKey(Node(newOldMax.m, parent), oldMax, newOldMax.v)),
                oldPageNum, newPageNum, splittingRoot)

\* internalNodeSplitAndInsert from "internalNodeInsert(table,
\* destinationPageNum, childPageNum)" on.
splitInsertChild(m, destinationPageNum, oldPageNum, parent, newPageNum, childPageNum,
                 splittingRoot, oldMax) ==
    IF ~Running(m) THEN m ELSE
    splitUpdateKey(
        getNodeMaxKey(SetParent(internalNodeInsert(m, destinationPageNum, childPageNum),
                                childPageNum, destinationPageNum),
                      oldPageNum),
        oldPageNum, parent, newPageNum, splittingRoot, oldMax)

\* internalNodeSplitAndInsert from the choice of destinationPageNum on.
splitDestination(maxAfterSplit, oldPageNum, parent, newPageNum, childPageNum,
                 splittingRoot, oldMax, childMax) ==
    IF ~Running(maxAfterSplit.m) THEN maxAfterSplit.m ELSE
    splitInsertChild(maxAfterSplit.m,
                     IF ~ULess(childMax, maxAfterSplit.v) THEN newPageNum ELSE oldPageNum,
                     oldPageNum, parent, newPageNum, childPageNum, splittingRoot, oldMax)

\* *internalNodeRightChild(oldNode) = *internalNodeChild(oldNode, *oldNumKeys-1),
\* last being the [m, v] of the pointer read.
splitLiftLast(last, oldPageNum) == SetRightChild(last.m, oldPageNum, last.v)

\* internalNodeSplitAndInsert after the loop.
splitAfterLoop(m, oldPageNum, parent, newPageNum, childPageNum,
               splittingRoot, oldMax, childMax) ==
    IF ~Running(m) THEN m ELSE
    splitDestination(
        getNodeMaxKey(
            decNumKeys(
                splitLiftLast(ReadChild(m, oldPageNum,
                                        UDec(internalNodeNumKeys(Node(m, oldPageNum)))),
                              oldPageNum),
                oldPageNum),
            oldPageNum),
        oldPageNum, parent, newPageNum, childPageNum, splittingRoot, oldMax, childMax)

\* internalNodeSplitAndInsert from "curPageNum := *internalNodeRightChild(oldNode)"
\* on, br being the result of the branch.
splitRest(br, newPageNum, childPageNum, splittingRoot, oldMax, childMax) ==
    IF ~Running(br.m) THEN br.m ELSE
    splitAfterLoop(
        splitMoveLoop(
            SetRightChild(
                moveChild([m |-> br.m, v |-> internalNodeRightChild(Node(br.m, br.oldPageNum))],
                          newPageNum),
                br.oldPageNum, INVALID_PAGE_NUM),
            br.oldPageNum, newPageNum, INTERNAL_NODE_MAX_CELLS - 1),
        br.oldPageNum, br.parent, newPageNum, childPageNum, splittingRoot, oldMax, childMax)

\* internalNodeSplitAndInsert from "newPageNum := getUnusedPageNum(pager)" on.
splitAlloc(childMax, parentPageNum, childPageNum, oldMax) ==
    IF ~Running(childMax.m) THEN childMax.m ELSE
    splitRest(splitBranch(childMax.m, parentPageNum, getUnusedPageNum(childMax.m)),
              getUnusedPageNum(childMax.m), childPageNum,
              isNodeRoot(Node(childMax.m, parentPageNum)), oldMax, childMax.v)

\* internalNodeSplitAndInsert from "child := getPage(pager, childPageNum)" on.
splitChildMax(oldMax, parentPageNum, childPageNum) ==
    IF ~Running(oldMax.m) THEN oldMax.m ELSE
    splitAlloc(getNodeMaxKey(getPage(oldMax.m, childPageNum), childPageNum),
               parentPageNum, childPageNum, oldMax.v)

internalNodeSplitAndInsert(m, parentPageNum, childPageNum) ==
    IF ~Running(m) THEN m
    ELSE splitChildMax(getNodeMaxKey(getPage(m, parentPageNum), parentPageNum),
                       parentPageNum, childPageNum)

\* internalNodeInsert, the branch "if childMaxKey > getNodeMaxKey(rightChild)"
\* from "*internalNodeKey(parent, originalNumKeys) = getNodeMaxKey(rightChild)" on.
insertAsRight(rightMax, parentPageNum, childPageNum, originalNumKeys) ==
    IF ~Running(rightMax.m) THEN rightMax.m ELSE
    SetRightChild(SetKey(rightMax.m, parentPageNum, originalNumKeys, rightMax.v),
                  parentPageNum, childPageNum)

\* internalNodeInsert from the comparison with the key of the right child on.
insertPlace(rightMax, rightChildPageNum, parentPageNum, childPageNum, childMaxKey,
            index, originalNumKeys) ==
    IF ~Running(rightMax.m) THEN rightMax.m ELSE
    IF ULess(rightMax.v, childMaxKey)
    THEN insertAsRight(
             getNodeMaxKey(SetChild(rightMax.m, parentPageNum, originalNumKeys,
                                    rightChildPageNum),
                           rightChildPageNum),
             parentPageNum, childPageNum, originalNumKeys)
    ELSE SetKey(SetChild(SetNode(rightMax.m, parentPageNum,
                                 internalShift(Node(rightMax.m, parentPageNum),
                                               originalNumKeys, index)),
                         parentPageNum, index, childPageNum),
                parentPageNum, index, childMaxKey)

\* internalNodeInsert from "rightChildPageNum := *internalNodeRightChild(parent)"
\* on: the call of internalNodeSplitAndInsert does not return from the
\* function, these statements follow it.
insertInPlace(m, parentPageNum, childPageNum, childMaxKey, index, originalNumKeys) ==
    IF ~Running(m) THEN m ELSE
    insertPlace(
        getNodeMaxKey(getPage(m, internalNodeRightChild(Node(m, parentPageNum))),
                      internalNodeRightChild(Node(m, parentPageNum))),
        internalNodeRightChild(Node(m, parentPageNum)),
        parentPageNum, childPageNum, childMaxKey, index, originalNumKeys)

\* internalNodeInsert from "*internalNodeNumKeys(parent) = originalNumKeys + 1" on.
insertCount(m, parentPageNum, childPageNum, childMaxKey, index, originalNumKeys) ==
    IF ~Running(m) THEN m ELSE
    insertInPlace(
        IF ~ULess(originalNumKeys, INTERNAL_NODE_MAX_CELLS)
        THEN internalNodeSplitAndInsert(SetNumKeys(m, parentPageNum, originalNumKeys + 1),
                                        parentPageNum, childPageNum)
        ELSE SetNumKeys(m, parentPageNum, originalNumKeys + 1),
        parentPageNum, childPageNum, childMaxKey, index, originalNumKeys)

\* internalNodeInsert from "index := internalNodeFindChild(parent, childMaxKey)" on.
insertIndex(childMaxKey, parentPageNum, childPageNum) ==
    IF ~Running(childMaxKey.m) THEN childMaxKey.m ELSE
    insertCount(childMaxKey.m, parentPageNum, childPageNum, childMaxKey.v,
                internalNodeFindChild(Node(childMaxKey.m, parentPageNum), childMaxKey.v),
                internalNodeNumKeys(Node(childMaxKey.m, parentPageNum)))

internalNodeInsert(m, parentPageNum, childPageNum) ==
    IF ~Running(m) THEN m
    ELSE insertIndex(
             getNodeMaxKey(getPage(getPage(m, parentPageNum), childPageNum), childPageNum),
             parentPageNum, childPageNum)

\* The cell the split loop of leafNodeSplitAndInsert writes at step i, in
\* the destination node dest.
leafSplitCell(dest, oldNode, cursor, key, value, i) ==
    IF i = cursor.cellNum
    THEN setLeafNodeKey(
             serializeRow(dest, leafNodeValue(i % LEAF_NODE_LEFT_SPLIT_COUNT), value),
             i % LEAF_NODE_LEFT_SPLIT_COUNT, key)
    ELSE IF i > cursor.cellNum
    THEN CopyTail(dest, leafNodeCell(i % LEAF_NODE_LEFT_SPLIT_COUNT),
                  oldNode, leafNodeCell(i - 1))
    ELSE CopyTail(dest, leafNodeCell(i % LEAF_NODE_LEFT_SPLIT_COUNT),
                  oldNode, leafNodeCell(i))

\* The destination page of step i of the split loop.
leafSplitDestination(oldPageNum, newPageNum, i) ==
    IF i >= LEAF_NODE_LEFT_SPLIT_COUNT THEN newPageNum ELSE oldPageNum

\* The loop of leafNodeSplitAndInsert over i = LEAF_NODE_MAX_CELLS .. 0.
RECURSIVE leafSplitLoop(_, _, _, _, _, _, _)
leafSplitLoop(m, oldPageNum, newPageNum, cursor, key, value, i) ==
    IF i < 0 \/ ~Running(m) THEN m
    ELSE leafSplitLoop(
             SetNode(m, leafSplitDestination(oldPageNum, newPageNum, i),
                     leafSplitCell(Node(m, leafSplitDestination(oldPageNum, newPageNum, i)),
                                   Node(m, oldPageNum), cursor, key, value, i)),
             oldPageNum, newPageNum, cursor, key, value, i - 1)

\* leafNodeSplitAndInsert, the else branch from "parent := getPage(...)" on.
leafSplitParent(newMax, oldPageNum, newPageNum, parentPageNum, oldMax) ==
    IF ~Running(newMax.m) THEN newMax.m ELSE
    internalNodeInsert(
        SetNode(getPage(newMax.m, parentPageNum), parentPageNum,
                updateInternalNodeKey(Node(getPage(newMax.m, parentPageNum), parentPageNum),
                                      oldMax, newMax.v)),
        parentPageNum, newPageNum)

\* leafNodeSplitAndInsert from "if isNodeRoot(oldNode)" on.
leafSplitLink(m, oldPageNum, newPageNum, oldMax) ==
    IF ~Running(m) THEN m ELSE
    IF isNodeRoot(Node(m, oldPageNum))
    THEN createNewRoot(m, newPageNum)
    ELSE leafSplitParent(getNodeMaxKey(m, oldPageNum), oldPageNum, newPageNum,
                         nodeParent(Node(m, oldPageNum)), oldMax)

\* leafNodeSplitAndInsert once the new page is loaded.
leafSplitIn(m, cursor, key, value, newPageNum, oldMax) ==
    IF ~Running(m) THEN m ELSE
    leafSplitLink(
        SetNumCells(
            SetNumCells(
                leafSplitLoop(
                    SetNextLeaf(
                        SetNextLeaf(InitLeaf(m, newPageNum), newPageNum,
                                    leafNodeNextLeaf(Node(InitLeaf(m, newPageNum),
                                                          cursor.pageNum))),
                        cursor.pageNum, newPageNum),
                    cursor.pageNum, newPageNum, cursor, key, value, LEAF_NODE_MAX_CELLS),
                cursor.pageNum, LEAF_NODE_LEFT_SPLIT_COUNT),
            newPageNum, LEAF_NODE_RIGHT_SPLIT_COUNT),
        cursor.pageNum, newPageNum, oldMax)

\* leafNodeSplitAndInsert from "newPageNum := getUnusedPageNum(pager)" on.
leafSplitAlloc(oldMax, cursor, key, value) ==
    IF ~Running(oldMax.m) THEN oldMax.m ELSE
    leafSplitIn(getPage(oldMax.m, getUnusedPageNum(oldMax.m)), cursor, key, value,
                getUnusedPageNum(oldMax.m), oldMax.v)

leafNodeSplitAndInsert(m, cursor, key, value) ==
    leafSplitAlloc(getNodeMaxKey(getPage(m, cursor.pageNum), cursor.pageNum),
                   cursor, key, value)

\* leafNodeInsert without a split: the cells from cursor.cellNum on are
\* shifted, the count is incremented, the key and the row are written.
leafNodeInsertCell(node, cursor, key, value) ==
    serializeRow(
        setLeafNodeKey(
            setLeafNodeNumcells(
                IF ULess(cursor.cellNum, leafNodeNumcells(node))
                THEN leafShift(node, leafNodeNumcells(node), cursor.cellNum)
                ELSE node,
                leafNodeNumcells(node) + 1),
            cursor.cellNum, key),
        leafNodeValue(cursor.cellNum), value)

\* leafNodeInsert once the page is loaded.
leafNodeInsertIn(m, cursor, key, value) ==
    IF ~Running(m) THEN m ELSE
    IF ~ULess(leafNodeNumcells(Node(m, cursor.pageNum)), LEAF_NODE_MAX_CELLS)
    THEN leafNodeSplitAndInsert(m, cursor, key, value)
    ELSE SetNode(m, cursor.pageNum,
                 leafNodeInsertCell(Node(m, cursor.pageNum), cursor, key, value))

leafNodeInsert(m, cursor, key, value) ==
    leafNodeInsertIn(getPage(m, cursor.pageNum), cursor, key, value)

(***************************************************************************)
(* Statements.  executeInsert and executeSelect return [m, result, out]:   *)
(* result is the ExecuteResult ("none" when the process terminated before  *)
(* returning one) and out the rows executeSelect printed, in order.        *)
(***************************************************************************)
\* executeInsert from "leafNodeInsert(cursor, rowToInsert.id, rowToInsert)" on.
insertResult(m) ==
    [m |-> m, result |-> IF Running(m) THEN "EXECUTE_SUCCESS" ELSE "none", out |-> << >>]

\* executeInsert from "if cursor.cellNum < numCells" on.  numCells was read
\* from the root page, and node still names the buffer of the root page.
insertAtCursor(m, cursor, numCells, rowToInsert) ==
    IF ~Running(m) THEN insertResult(m)
    ELSE IF ULess(cursor.cellNum, numCells) /\ ~InBuf(leafNodeCell(cursor.cellNum))
    THEN insertResult(Panic(m))
    ELSE IF /\ ULess(cursor.cellNum, numCells)
            /\ leafNodeKey(Node(m, rootPageNum), cursor.cellNum) = rowToInsert.id
    THEN [m |-> m, result |-> "EXECUTE_DUPLICATE_KEY", out |-> << >>]
    ELSE insertResult(leafNodeInsert(m, cursor, rowToInsert.id, rowToInsert))

\* executeInsert from "cursor := tableFind(table, keyToInsert)" on.
insertFound(found, numCells, rowToInsert) ==
    insertAtCursor(found.m, found.cursor, numCells, rowToInsert)

\* executeInsert once the root page is loaded.
executeInsertIn(m, rowToInsert) ==
    insertFound(tableFind(m, rowToInsert.id), leafNodeNumcells(Node(m, rootPageNum)),
                rowToInsert)

executeInsert(m, rowToInsert) == executeInsertIn(getPage(m, rootPageNum), rowToInsert)

\* tableStart once the page of the cursor is loaded.
tableStartIn(m, cursor) ==
    [m |-> m,
     cursor |-> [cursor EXCEPT
                    !.endOfTable = (leafNodeNumcells(Node(m, cursor.pageNum)) = 0)]]

\* tableStart from "node := getPage(...)" on.
tableStartFound(found) ==
    tableStartIn(getPage(found.m, found.cursor.pageNum), found.cursor)

tableStart(m) == tableStartFound(tableFind(m, 0))

\* cursorValue(cursor): the offset of the value in the cursor's page, the
\* page being loaded; deserializeRow then slices ROW_SIZE bytes from it.
cursorValue(m, cursor) ==
    [m |-> IF /\ leafNodeValue(cursor.cellNum) >= 0
              /\ leafNodeValue(cursor.cellNum) + ROW_SIZE <= PAGE_SIZE
           THEN getPage(m, cursor.pageNum)
           ELSE Panic(getPage(m, cursor.pageNum)),
     v |-> leafNodeValue(cursor.cellNum)]

\* cursorAdvance once the page is loaded.
cursorAdvanceIn(m, cursor) ==
    [m |-> m,
     cursor |-> IF ~ULess(cursor.cellNum + 1, leafNodeNumcells(Node(m, cursor.pageNum)))
                THEN IF leafNodeNextLeaf(Node(m, cursor.pageNum)) = 0
                     THEN [cursor EXCEPT !.cellNum = @ + 1, !.endOfTable = TRUE]
                     ELSE [cursor EXCEPT !.pageNum = leafNodeNextLeaf(Node(m, cursor.pageNum)),
                                         !.cellNum = 0]
                ELSE [cursor EXCEPT !.cellNum = @ + 1]]

cursorAdvance(m, cursor) == cursorAdvanceIn(getPage(m, cursor.pageNum), cursor)

RECURSIVE selectLoop(_, _, _, _)

\* The loop of executeSelect after cursorAdvance, adv being its result.
selectNext(adv, out, seen) == selectLoop(adv.m, adv.cursor, out, seen)

\* One pass of the loop of executeSelect, val being the result of cursorValue.
selectRow(val, cursor, out, seen) ==
    IF ~Running(val.m) THEN [m |-> val.m, result |-> "none", out |-> out]
    ELSE selectNext(cursorAdvance(val.m, cursor),
                    Append(out, deserializeRow(Node(val.m, cursor.pageNum), val.v)),
                    seen \cup {<<cursor.pageNum, cursor.cellNum>>})

\* The loop of executeSelect.  seen holds the cursor positions already
\* printed.  No page content changes during a select, so the next position
\* is a function of the current one: coming back to a position, the loop
\* repeats for ever and the statement never returns (status "hang").
selectLoop(m, cursor, out, seen) ==
    IF ~Running(m) THEN [m |-> m, result |-> "none", out |-> out]
    ELSE IF cursor.endOfTable THEN [m |-> m, result |-> "EXECUTE_SUCCESS", out |-> out]
    ELSE IF <<cursor.pageNum, cursor.cellNum>> \in seen
         THEN [m |-> [m EXCEPT !.status = "hang"], result |-> "none", out |-> out]
    ELSE selectRow(cursorValue(m, cursor), cursor, out, seen)

\* The loop of executeSelect, start being the result of tableStart.
selectFrom(start) == selectLoop(start.m, start.cursor, << >>, {})

executeSelect(m) == selectFrom(tableStart(m))

\* dbOpen, "if pager.numPages == 0 { ... }".
dbOpenIn(pager) ==
    IF pager.numPages = 0 THEN InitLeaf(getPage(pager, 0), 0) ELSE pager

dbOpen(disk) == dbOpenIn(pagerOpen(disk))

(***************************************************************************)
(* The state machine: the REPL of main() over one database file.           *)
(***************************************************************************)
VARIABLES
    pages,       \* pager.pages: the cached buffers, by page number
    numPages,    \* pager.numPages
    fileLength,  \* pager.fileLength
    disk,        \* the content of the database file, by page number
    status,      \* "running", "fatal", "panic", "hang" or "exited"
    last,        \* the last statement: [op, row, result]
    out,         \* the rows the last select printed
    inserted     \* ids of the inserts that returned EXECUTE_SUCCESS

vars == <<pages, numPages, fileLength, disk, status, last, out, inserted>>

\* The machine state of the current variables.
Machine ==
    [pages |-> pages, numPages |-> numPages, fileLength |-> fileLength,
     disk |-> disk, status |-> status]

\* The variables take the machine state n.  A process that has terminated
\* (or hangs) has no memory any more; the file stays as it is.
Commit(n) ==
    /\ disk' = n.disk
    /\ status' = n.status
    /\ IF n.status = "running"
       THEN /\ pages' = n.pages
            /\ numPages' = n.numPages
            /\ fileLength' = n.fileLength
       ELSE /\ pages' = [x \in {} |-> ZeroPage]
            /\ numPages' = 0
            /\ fileLength' = 0

\* The rows of the insert statements the model draws: an id of keys, the
\* username "a" or "bb", the email "x".
Rows(keys) == [id : keys, username : {<<97>>, <<98, 98>>}, email : {<<120>>}]

\* The row of a statement that carries none.
NoRow == [id |-> 0, username |-> << >>, email |-> << >>]

\* The variables after the program has started and dbOpen has returned m.
Started(m) ==
    /\ pages = m.pages
    /\ numPages = m.numPages
    /\ fileLength = m.fileLength
    /\ disk = m.disk
    /\ status = m.status
    /\ last = [op |-> "open", row |-> NoRow, result |-> "none"]
    /\ out = << >>
    /\ inserted = {}

\* main() started on an empty (or absent) file.
Init == \E m \in {dbOpen([x \in {} |-> ZeroPage])} : Started(m)

\* The statement "insert <id> <username> <email>".
DoInsert(row) ==
    /\ status = "running"
    /\ \E r \in {executeInsert(Machine, row)} :
          /\ Commit(r.m)
          /\ last' = [op |-> "insert", row |-> row, result |-> r.result]
          /\ inserted' = IF r.result = "EXECUTE_SUCCESS"
                         THEN inserted \cup {row.id} ELSE inserted
          /\ out' = << >>

Insert == \E row \in Rows(0 .. MaxKey) : DoInsert(row)

\* The statement "select".
Select ==
    /\ status = "running"
    /\ \E r \in {executeSelect(Machine)} :
          /\ Commit(r.m)
          /\ last' = [op |-> "select", row |-> NoRow, result |-> r.result]
          /\ out' = r.out
          /\ UNCHANGED inserted

\* The meta-command ".exit": dbClose, then os.Exit(0).
Exit ==
    /\ status = "running"
    /\ \E c \in {dbClose(Machine)} :
          Commit(IF Running(c) THEN [c EXCEPT !.status = "exited"] ELSE c)
    /\ last' = [op |-> "exit", row |-> NoRow, result |-> "none"]
    /\ out' = << >>
    /\ UNCHANGED inserted

\* The program is started again on the same file.
Open ==
    /\ status = "exited"
    /\ Commit(dbOpen(disk))
    /\ last' = [op |-> "open", row |-> NoRow, result |-> "none"]
    /\ out' = << >>
    /\ UNCHANGED inserted

Next == Insert \/ Select \/ Exit \/ Open

\* Sessions on an empty file with ids in 0..MaxKey, in any order.
Spec == Init /\ [][Next]_vars

(***************************************************************************)
(* SpecFill: sessions on an empty file that fill the root leaf with        *)
(* LEAF_NODE_MAX_CELLS rows in ascending order and then insert once more,  *)
(* at any position.  The first id is KeyStep or TABLE_MAX_PAGES - 1.       *)
(***************************************************************************)
FillRow(id) == [id |-> id, username |-> <<97>>, email |-> <<120>>]

FillInsert ==
    /\ Cardinality(inserted) < LEAF_NODE_MAX_CELLS
    /\ \E id \in (IF inserted = {} THEN {KeyStep, TABLE_MAX_PAGES - 1} ELSE {MaxOf(inserted) + KeyStep}) :
          DoInsert(FillRow(id))

OverflowInsert ==
    /\ Cardinality(inserted) = LEAF_NODE_MAX_CELLS
    /\ \E id \in MinOf(inserted) - 1 .. MaxOf(inserted) + 1 : DoInsert(FillRow(id))

NextFill == FillInsert \/ OverflowInsert \/ Select \/ Exit \/ Open

SpecFill == Init /\ [][NextFill]_vars

(***************************************************************************)
(* SpecRooted: sessions on an existing database file of one page, holding  *)
(* the empty tree of the file format: an empty leaf that is marked as the  *)
(* root.  dbOpen takes the pages of a file that is not empty as they are.  *)
(* The ids are inserted in ascending order from 1; the id 1 or the id 3 is *)
(* inserted once more as long as the leaves hold one cell per successful   *)
(* insert.                                                                 *)
(***************************************************************************)
RootedFile == [x \in {0} |-> setNodeRoot(initializeLeafNode(ZeroPage), TRUE)]

InitRooted == \E m \in {dbOpen(RootedFile)} : Started(m)

\* The number of cells of the leaves in the cache.
RECURSIVE CellCount(_)
CellCount(S) ==
    IF S = {} THEN 0
    ELSE (IF getNodeType(pages[MaxOf(S)]) = NODE_LEAF
          THEN leafNodeNumcells(pages[MaxOf(S)]) ELSE 0)
         + CellCount(S \ {MaxOf(S)})

AscInsert ==
    /\ Cardinality(inserted) < MaxRows
    /\ DoInsert(FillRow(MaxOf(inserted \cup {0}) + 1))

RepeatInsert ==
    /\ CellCount(DOMAIN pages) = Cardinality(inserted)
    /\ \E id \in {1, 3} \cap inserted : DoInsert(FillRow(id))

SpecRooted == InitRooted /\ [][AscInsert \/ RepeatInsert \/ Select]_vars

(***************************************************************************)
(* What the properties below read from a state.                            *)
(***************************************************************************)
\* The ids of a sequence of rows.
Ids(rows) == [i \in 1 .. Len(rows) |-> rows[i].id]

StrictlyIncreasing(ids) == \A i \in 1 .. Len(ids) - 1 : ULess(ids[i], ids[i + 1])

Range(f) == {f[x] : x \in DOMAIN f}

\* The keys of the cells 0..num_cells-1 of a leaf buffer.
LeafKeys(node) ==
    {leafNodeKey(node, c) : c \in 0 .. leafNodeNumcells(node) - 1}

\* The keys held by the leaves in the cache.
StoredKeys ==
    UNION {LeafKeys(pages[p]) : p \in {q \in DOMAIN pages : getNodeType(pages[q]) = NODE_LEAF}}

\* The child page numbers of an internal node buffer: child[0..num_keys-1]
\* and right_child.
Children(node) ==
    {GetU32(node, internalNodeCell(c)) : c \in 0 .. internalNodeNumKeys(node) - 1}
        \cup {internalNodeRightChild(node)}

\* The pages of the subtree of page p, followed through at most d levels of
\* internal nodes, and the keys their leaves hold.
RECURSIVE SubtreePages(_, _)
SubtreePages(p, d) ==
    IF p \notin DOMAIN pages THEN {}
    ELSE IF getNodeType(pages[p]) = NODE_LEAF \/ d = 0 THEN {p}
    ELSE {p} \cup UNION {SubtreePages(c, d - 1) : c \in Children(pages[p])}

TreePages == SubtreePages(rootPageNum, Cardinality(DOMAIN pages))

SubtreeKeys(p) ==
    UNION {LeafKeys(pages[q]) :
              q \in {r \in SubtreePages(p, Cardinality(DOMAIN pages)) :
                        getNodeType(pages[r]) = NODE_LEAF}}

\* The last statement was an insert that returned.
InsertCompleted == last.op = "insert" /\ status = "running"

(***************************************************************************)
(* C1: after successful inserts on a database opened from an empty file, a *)
(* select returns and yields keys in strictly increasing order, and the    *)
(* set of the keys it yields is exactly the set of the inserted ids.       *)
(***************************************************************************)
C1_SelectYieldsInserted ==
    last.op = "select" =>
       /\ status = "running"
       /\ last.result = "EXECUTE_SUCCESS"
       /\ StrictlyIncreasing(Ids(out))
       /\ Range(Ids(out)) = inserted

(***************************************************************************)
(* C2: an insert whose id equals an id already stored returns the          *)
(* duplicate-key result and changes nothing: the cache, num_pages and the  *)
(* file are as before.                                                     *)
(***************************************************************************)
C2_DuplicateRejected ==
    [][(status = "running" /\ last'.op = "insert" /\ last'.row.id \in StoredKeys)
          => /\ last'.result = "EXECUTE_DUPLICATE_KEY"
             /\ status' = "running"
             /\ pages' = pages
             /\ numPages' = numPages
             /\ disk' = disk]_vars

(***************************************************************************)
(* C3: in every state reached by inserts and selects in which select       *)
(* returns, dbClose after that select followed by dbOpen of the same file  *)
(* gives a table on which select returns the same rows in the same order.  *)
(***************************************************************************)
\* The result of select on the table reopened after closing m.
SelectReopened(m) == executeSelect(dbOpen(dbClose(m).disk))

C3_ReopenSameSelect ==
    status = "running" =>
       \A sel \in {executeSelect(Machine)} :
          Running(sel.m) =>
             /\ Running(dbClose(sel.m))
             /\ Running(dbClose(Machine))
             /\ \A again \in {SelectReopened(sel.m), SelectReopened(Machine)} :
                   /\ again.result = sel.result
                   /\ again.out = sel.out

\* The program has been closed and started again on a file that holds at
\* least two rows.
C3_Witness ==
    /\ last.op = "open"
    /\ status = "running"
    /\ Cardinality(inserted) >= 2
    /\ Len(executeSelect(Machine).out) >= 2

(***************************************************************************)
(* C4: from an empty file, the insert that overflows the full root leaf    *)
(* returns success, and afterwards page 0 is an internal root with one key *)
(* and two leaf children of 7 cells each.                                  *)
(***************************************************************************)
\* The last statement was the insert of a new id into the root leaf that
\* held LEAF_NODE_MAX_CELLS rows.
Overflowed ==
    /\ last.op = "insert"
    /\ last.result # "EXECUTE_DUPLICATE_KEY"
    /\ \/ Cardinality(inserted) = LEAF_NODE_MAX_CELLS + 1
       \/ Cardinality(inserted) = LEAF_NODE_MAX_CELLS /\ last.row.id \notin inserted

C4_LeafSplit ==
    Overflowed =>
       /\ status = "running"
       /\ last.result = "EXECUTE_SUCCESS"
       /\ getNodeType(pages[rootPageNum]) = NODE_INTERNAL
       /\ internalNodeNumKeys(pages[rootPageNum]) = 1
       /\ \A c \in Children(pages[rootPageNum]) :
             /\ c \in DOMAIN pages
             /\ getNodeType(pages[c]) = NODE_LEAF
             /\ leafNodeNumcells(pages[c]) = LEAF_NODE_LEFT_SPLIT_COUNT

(***************************************************************************)
(* C5: an insert that adds a child to an internal node which holds         *)
(* INTERNAL_NODE_MAX_CELLS keys returns success, without a fatal exit.     *)
(***************************************************************************)
\* The leaf that tableFind reaches for id is full and its parent holds
\* INTERNAL_NODE_MAX_CELLS keys: inserting id splits the leaf and hands the
\* new leaf to that parent.
AddsChildToFullNode(id) ==
    /\ rootPageNum \in DOMAIN pages
    /\ getNodeType(pages[rootPageNum]) = NODE_INTERNAL
    /\ internalNodeNumKeys(pages[rootPageNum]) = INTERNAL_NODE_MAX_CELLS
    /\ Running(tableFind(Machine, id).m)
    /\ leafNodeNumcells(Node(Machine, tableFind(Machine, id).cursor.pageNum)) = LEAF_NODE_MAX_CELLS
    /\ nodeParent(Node(Machine, tableFind(Machine, id).cursor.pageNum)) = rootPageNum

C5_InternalSplit ==
    [][(/\ status = "running"
        /\ last'.op = "insert"
        /\ last'.result # "EXECUTE_DUPLICATE_KEY"
        /\ AddsChildToFullNode(last'.row.id))
          => /\ status' = "running"
             /\ last'.result = "EXECUTE_SUCCESS"]_vars

(***************************************************************************)
(* C6: a row written into a leaf cell by an insert reads back with the     *)
(* same id and with username and email equal to the original bytes padded  *)
(* with NUL, whatever the cell held before.                                *)
(***************************************************************************)
C6_RowRoundTrip ==
    (InsertCompleted /\ last.result = "EXECUTE_SUCCESS") =>
       \E c \in 0 .. leafNodeNumcells(pages[rootPageNum]) - 1 :
          /\ leafNodeKey(pages[rootPageNum], c) = last.row.id
          /\ deserializeRow(pages[rootPageNum], leafNodeValue(c))
                = [id |-> last.row.id,
                   username |-> Bytes(last.row.username),
                   email |-> Bytes(last.row.email)]

(***************************************************************************)
(* C7: an insert that needs a page when all TABLE_MAX_PAGES pages are in   *)
(* use returns EXECUTE_TABLE_FULL, leaves the table unchanged and the      *)
(* process running.                                                        *)
(***************************************************************************)
\* The root leaf is full, id is not in it, and the pager has handed out
\* every page number 0..TABLE_MAX_PAGES-1: inserting id splits the leaf.
NeedsPageBeyondMax(id) ==
    /\ numPages = TABLE_MAX_PAGES
    /\ rootPageNum \in DOMAIN pages
    /\ getNodeType(pages[rootPageNum]) = NODE_LEAF
    /\ leafNodeNumcells(pages[rootPageNum]) = LEAF_NODE_MAX_CELLS
    /\ id \notin LeafKeys(pages[rootPageNum])

C7_TableFull ==
    [][(status = "running" /\ last'.op = "insert" /\ NeedsPageBeyondMax(last'.row.id))
          => /\ last'.result = "EXECUTE_TABLE_FULL"
             /\ status' = "running"
             /\ pages' = pages
             /\ numPages' = numPages]_vars

(***************************************************************************)
(* C8: between the statements of a session on an empty file, page 0 has    *)
(* is_root = 1 and no other page has.                                      *)
(***************************************************************************)
C8_OneRoot ==
    (status = "running" /\ rootPageNum \in DOMAIN pages) =>
       \A p \in DOMAIN pages : isNodeRoot(pages[p]) <=> p = rootPageNum

(***************************************************************************)
(* C9: after every completed insert, the keys of every internal node of    *)
(* the tree are strictly increasing, every key in the subtree of child[i]  *)
(* is <= key[i], and every key in the subtree of right_child is greater    *)
(* than the last key.                                                      *)
(***************************************************************************)
InternalOrdered(node) ==
    /\ \A i \in 0 .. internalNodeNumKeys(node) - 2 :
          ULess(internalNodeKey(node, i), internalNodeKey(node, i + 1))
    /\ \A i \in 0 .. internalNodeNumKeys(node) - 1 :
          \A key \in SubtreeKeys(GetU32(node, internalNodeCell(i))) :
             ~ULess(internalNodeKey(node, i), key)
    /\ \A key \in SubtreeKeys(internalNodeRightChild(node)) :
          ULess(internalNodeKey(node, internalNodeNumKeys(node) - 1), key)

C9_InternalOrder ==
    InsertCompleted =>
       \A p \in TreePages :
          (getNodeType(pages[p]) = NODE_INTERNAL /\ internalNodeNumKeys(pages[p]) > 0)
             => InternalOrdered(pages[p])

(***************************************************************************)
(* C10: after every completed insert, the parent_page_num of every node of *)
(* the tree that is not marked as root names an internal node that has the *)
(* node among its children.                                                *)
(***************************************************************************)
ParentHolds(p) ==
    /\ nodeParent(pages[p]) \in DOMAIN pages
    /\ getNodeType(pages[nodeParent(pages[p])]) = NODE_INTERNAL
    /\ p \in Children(pages[nodeParent(pages[p])])

C10_ParentPointers ==
    InsertCompleted =>
       \A p \in TreePages : ~isNodeRoot(pages[p]) => ParentHolds(p)

(***************************************************************************)
(* C11: after every completed insert, the next_leaf of every leaf of the   *)
(* tree is 0 or the page number of the leaf that holds the smallest stored *)
(* key greater than the leaf's largest key, and it is 0 in the leaf that   *)
(* holds the largest stored key.                                           *)
(***************************************************************************)
\* The stored keys greater than every key of the leaf in page p.
KeysAfter(p) ==
    {k \in SubtreeKeys(rootPageNum) : \A own \in LeafKeys(pages[p]) : ULess(own, k)}

NextLeafHolds(p) ==
    \/ leafNodeNextLeaf(pages[p]) = 0
    \/ /\ KeysAfter(p) # {}
       /\ leafNodeNextLeaf(pages[p]) \in TreePages
       /\ getNodeType(pages[leafNodeNextLeaf(pages[p])]) = NODE_LEAF
       /\ MinOf(KeysAfter(p)) \in LeafKeys(pages[leafNodeNextLeaf(pages[p])])

C11_NextLeafChain ==
    InsertCompleted =>
       \A p \in {q \in TreePages : getNodeType(pages[q]) = NODE_LEAF} : NextLeafHolds(p)

(***************************************************************************)
(* C12: after every insert that returned, every internal node of the tree  *)
(* with num_keys = k has k+1 different children, none of them              *)
(* INVALID_PAGE_NUM, and each the page of a node whose parent it is.       *)
(***************************************************************************)
\* Page c is allocated and holds a leaf or an internal node with keys.
HoldsNode(c) ==
    /\ c \in DOMAIN pages
    /\ ULess(c, numPages)
    /\ \/ getNodeType(pages[c]) = NODE_LEAF
       \/ internalNodeNumKeys(pages[c]) > 0

ValidChildren(p) ==
    /\ Cardinality(Children(pages[p])) = internalNodeNumKeys(pages[p]) + 1
    /\ \A c \in Children(pages[p]) :
          /\ c # INVALID_PAGE_NUM
          /\ c # rootPageNum
          /\ HoldsNode(c)
          /\ nodeParent(pages[c]) = p

C12_ValidChildren ==
    InsertCompleted =>
       \A p \in {q \in TreePages : getNodeType(pages[q]) = NODE_INTERNAL} : ValidChildren(p)

\* The root is an internal node that holds INTERNAL_NODE_MAX_CELLS keys.
C12_Witness ==
    /\ InsertCompleted
    /\ getNodeType(pages[rootPageNum]) = NODE_INTERNAL
    /\ internalNodeNumKeys(pages[rootPageNum]) = INTERNAL_NODE_MAX_CELLS

(***************************************************************************)
(* C13: on a table built by inserts from an empty file, select returns     *)
(* EXECUTE_SUCCESS without ending the process, and every page it has gone  *)
(* to (every page in the cache once it has returned) is a node of the      *)
(* tree.                                                                   *)
(***************************************************************************)
C13_SelectTerminates ==
    last.op = "select" =>
       /\ status = "running"
       /\ last.result = "EXECUTE_SUCCESS"
       /\ DOMAIN pages \subseteq TreePages

(***************************************************************************)
(* C14: getPage applied to page number TABLE_MAX_PAGES, which indexes no   *)
(* slot of the cache, ends in the fatal exit.  The insert that splits the  *)
(* root leaf when num_pages = TABLE_MAX_PAGES applies getPage to that page *)
(* number (getUnusedPageNum), so it ends the process by the fatal exit and *)
(* not by indexing the pages array out of range.                           *)
(***************************************************************************)
C14_OutOfBoundsFatal ==
    [][(status = "running" /\ last'.op = "insert" /\ NeedsPageBeyondMax(last'.row.id))
          => status' = "fatal"]_vars

(***************************************************************************)
(* SpecPrepare: sessions on an empty file whose insert statements go       *)
(* through prepareInsert.  An input line "insert ..." is the record of     *)
(* what prepareInsert reads from it: n, the number of fields of the line;  *)
(* numeric, whether strconv.Atoi accepts the second field; id, the integer *)
(* Atoi returns then; username and email, the third and the fourth field.  *)
(* The ids of the lines are small, so that uint32(id) is id.               *)
(***************************************************************************)
\* prepareInsert without the test of the length of the username.
prepareInsertAnyUsername(line) ==
    IF line.n < 4 THEN [result |-> "PREPARE_SYNTAX_ERROR", row |-> NoRow]
    ELSE IF line.n > 4 THEN [result |-> "PREPARE_SYNTAX_TOO_LONG", row |-> NoRow]
    ELSE IF ~line.numeric \/ (line.wraps = 0 /\ line.id < 0)
         THEN [result |-> "PREPARE_NEGATIVE_ID", row |-> NoRow]
    ELSE IF Len(line.email) > COLUMN_EMAIL_SIZE
         THEN [result |-> "PREPARE_SYNTAX_TOO_LONG", row |-> NoRow]
    ELSE [result |-> "PREPARE_SUCCESS",
          row |-> [id |-> line.id, username |-> line.username, email |-> line.email]]

\* The second field of the line is the decimal integer
\* line.id + line.wraps * 2^32, with line.id a 32-bit value.  strconv.Atoi
\* returns it as an int of 64 bits (it fails from 2^63 on), so that it is
\* negative when wraps = 0 and id < 0, and uint32(id) keeps its low 32 bits,
\* which are line.id.
prepareInsert(line) ==
    IF line.n < 4 THEN [result |-> "PREPARE_SYNTAX_ERROR", row |-> NoRow]
    ELSE IF line.n > 4 THEN [result |-> "PREPARE_SYNTAX_TOO_LONG", row |-> NoRow]
    ELSE IF ~line.numeric \/ (line.wraps = 0 /\ line.id < 0)
         THEN [result |-> "PREPARE_NEGATIVE_ID", row |-> NoRow]
    ELSE IF Len(line.username) > COLUMN_USERNAME_SIZE
         THEN [result |-> "PREPARE_SYNTAX_TOO_LONG", row |-> NoRow]
    ELSE IF Len(line.email) > COLUMN_EMAIL_SIZE
         THEN [result |-> "PREPARE_SYNTAX_TOO_LONG", row |-> NoRow]
    ELSE [result |-> "PREPARE_SUCCESS",
          row |-> [id |-> line.id, username |-> line.username, email |-> line.email]]

\* The lines typed: four fields with an integer id in -1..MaxLineId, a
\* username of 1, 32 or 33 bytes and an email of 1, 255 or 256 bytes; four
\* fields with an id in w * 2^32 + (0..MaxLineId) for w in 1..MaxWrap, a
\* username and an email of 1 byte; and lines of three or five fields or
\* with an id that is no integer.
Lines ==
    {l \in [n : {3, 4, 5}, numeric : BOOLEAN, id : -1 .. MaxLineId,
            wraps : 0 .. MaxWrap,
            username : {[i \in 1 .. n |-> 97] :
                           n \in {1, COLUMN_USERNAME_SIZE, COLUMN_USERNAME_SIZE + 1}},
            email : {[i \in 1 .. n |-> 120] :
                        n \in {1, COLUMN_EMAIL_SIZE, COLUMN_EMAIL_SIZE + 1}}] :
        /\ (l.n # 4 \/ ~l.numeric) => (l.id = 0 /\ l.wraps = 0 /\ l.email = <<120>>)
        /\ l.wraps > 0 => (l.id >= 0 /\ l.username = <<97>> /\ l.email = <<120>>)}

\* One pass of the loop of main() on an insert line: prepareStatement, and
\* executeStatement if it returned PREPARE_SUCCESS.
Statement(line) ==
    /\ status = "running"
    /\ \E p \in {prepareInsert(line)} :
          IF p.result = "PREPARE_SUCCESS"
          THEN \E r \in {executeInsert(Machine, p.row)} :
                  /\ Commit(r.m)
                  /\ last' = [op |-> "insert", row |-> line, result |-> r.result]
                  /\ inserted' = IF r.result = "EXECUTE_SUCCESS"
                                 THEN inserted \cup {p.row.id} ELSE inserted
          ELSE /\ last' = [op |-> "insert", row |-> line, result |-> p.result]
               /\ UNCHANGED <<pages, numPages, fileLength, disk, status, inserted>>
    /\ out' = << >>

SpecPrepare == Init /\ [][(\E line \in Lines : Statement(line)) \/ Select]_vars

(***************************************************************************)
(* C15: an insert statement whose username is longer than 32 bytes or      *)
(* whose email is longer than 255 bytes is rejected with the too-long      *)
(* result, and neither the cache, num_pages nor the file changes.          *)
(***************************************************************************)
\* The line has the four fields of an insert statement, and its username
\* or its email is too long.
Oversize(line) ==
    /\ line.n = 4
    /\ \/ Len(line.username) > COLUMN_USERNAME_SIZE
       \/ Len(line.email) > COLUMN_EMAIL_SIZE

TableUnchanged ==
    /\ pages' = pages
    /\ numPages' = numPages
    /\ fileLength' = fileLength
    /\ disk' = disk
    /\ status' = status

C15_OversizeRejected ==
    [][(last'.op = "insert" /\ Oversize(last'.row))
          => (last'.result = "PREPARE_SYNTAX_TOO_LONG" /\ TableUnchanged)]_vars

(***************************************************************************)
(* C15, amended: the too-long result is given when the id of the statement *)
(* is accepted (an integer that is not negative); an oversize statement    *)
(* whose id is not accepted is rejected as an illegal id, the id being     *)
(* tested first.  In both cases nothing changes.                           *)
(***************************************************************************)
C15_OversizeRejectedAfterId ==
    [][(last'.op = "insert" /\ Oversize(last'.row))
          => /\ TableUnchanged
             /\ last'.result = IF last'.row.numeric /\ last'.row.id >= 0
                               THEN "PREPARE_SYNTAX_TOO_LONG"
                               ELSE "PREPARE_NEGATIVE_ID"]_vars

\* An oversize statement with an accepted id has been typed on a table
\* that holds a row.
C15_Witness ==
    /\ last.op = "insert"
    /\ Oversize(last.row)
    /\ last.row.numeric
    /\ last.row.id >= 0
    /\ inserted # {}

(***************************************************************************)
(* SpecRootedFill: the sessions of SpecFill on the database file of        *)
(* SpecRooted: the marked root leaf is filled with LEAF_NODE_MAX_CELLS     *)
(* rows in ascending order and split by one more insert, at any position.  *)
(***************************************************************************)
SpecRootedFill == InitRooted /\ [][NextFill]_vars

(***************************************************************************)
(* C16: leafNodeSplitAndInsert on a full leaf, at any position: afterwards *)
(* the cells of the old leaf followed by the cells of the new leaf are the *)
(* 13 former cells and the new cell, in the order of their keys, each with *)
(* its key and its row, LEAF_NODE_LEFT_SPLIT_COUNT of them in the old leaf.*)
(***************************************************************************)
\* The cells 0..n-1 of a leaf buffer, as (key, row) pairs.
CellsOf(node, n) ==
    [c \in 1 .. n |->
        [key |-> leafNodeKey(node, c - 1),
         row |-> deserializeRow(node, leafNodeValue(c - 1))]]

\* The cell that holds a row under its id, as CellsOf reads it.
RowCell(row) ==
    [key |-> row.id,
     row |-> [id |-> row.id, username |-> Bytes(row.username), email |-> Bytes(row.email)]]

FillCell(id) == RowCell(FillRow(id))

\* The cells of the rows FillRow(id), id in S, in the order of the ids.
RECURSIVE SortedCells(_)
SortedCells(S) ==
    IF S = {} THEN << >> ELSE Append(SortedCells(S \ {MaxOf(S)}), FillCell(MaxOf(S)))

\* The root leaf has been split by the last insert: the root is an internal
\* node with one key, whose children are the old and the new leaf.
RootLeafSplit ==
    /\ InsertCompleted
    /\ last.result = "EXECUTE_SUCCESS"
    /\ Cardinality(inserted) = LEAF_NODE_MAX_CELLS + 1
    /\ getNodeType(pages[rootPageNum]) = NODE_INTERNAL
    /\ internalNodeNumKeys(pages[rootPageNum]) = 1
    /\ Children(pages[rootPageNum]) \subseteq DOMAIN pages

C16_SplitKeepsCells ==
    RootLeafSplit =>
       CellsOf(pages[GetU32(pages[rootPageNum], internalNodeCell(0))],
               LEAF_NODE_LEFT_SPLIT_COUNT)
          \o CellsOf(pages[internalNodeRightChild(pages[rootPageNum])],
                     LEAF_NODE_RIGHT_SPLIT_COUNT)
          = SortedCells(inserted)

(***************************************************************************)
(* C17: no insert applies getPage to INVALID_PAGE_NUM: an insert statement *)
(* that starts in the running program never ends in the fatal exit "Page   *)
(* number out of bounds" (os.Exit(1) of getPage), whatever splits it makes.*)
(***************************************************************************)
C17_NoInvalidPage ==
    [][(status = "running" /\ last'.op = "insert") => status' # "fatal"]_vars

(***************************************************************************)
(* C18: the duplicate test of executeInsert reads the leaf the cursor      *)
(* points to: on a tree whose root is an internal node, an insert that     *)
(* returns gives the duplicate-key result exactly when its id is stored in *)
(* a leaf of the tree.                                                     *)
(***************************************************************************)
C18_DuplicateTestOnLeaf ==
    [][(/\ status = "running"
        /\ status' = "running"
        /\ last'.op = "insert"
        /\ rootPageNum \in DOMAIN pages
        /\ getNodeType(pages[rootPageNum]) = NODE_INTERNAL)
          => (last'.result = "EXECUTE_DUPLICATE_KEY"
                 <=> last'.row.id \in SubtreeKeys(rootPageNum))]_vars

(***************************************************************************)
(* C19: in a leaf page the header and the cell area are disjoint: on every *)
(* leaf in the cache, writing the key or the row of any cell               *)
(* 0..LEAF_NODE_MAX_CELLS-1 leaves num_cells and next_leaf as they were,   *)
(* and writing next_leaf leaves the key and the row of every cell as they  *)
(* were.                                                                   *)
(***************************************************************************)
\* The header fields of a leaf that the cell writes must not touch.
LeafHeader(node) == <<leafNodeNumcells(node), leafNodeNextLeaf(node)>>

C19_HeaderCellsDisjoint ==
    \A p \in {q \in DOMAIN pages : getNodeType(pages[q]) = NODE_LEAF} :
       /\ \A c \in 0 .. LEAF_NODE_MAX_CELLS - 1, row \in Rows(1 .. MaxKey + 1) :
             /\ LeafHeader(setLeafNodeKey(pages[p], c, row.id)) = LeafHeader(pages[p])
             /\ LeafHeader(serializeRow(pages[p], leafNodeValue(c), row)) = LeafHeader(pages[p])
       /\ \A v \in 1 .. MaxKey + 1 :
             CellsOf(setLeafNodeNextLeaf(pages[p], v), LEAF_NODE_MAX_CELLS)
                = CellsOf(pages[p], LEAF_NODE_MAX_CELLS)

(***************************************************************************)
(* SpecDesc: sessions on an empty file whose inserts carry ids in          *)
(* 0..MaxDesc, each smaller than the ids inserted before, so that every    *)
(* insert is at position 0 of the root leaf and shifts all its cells.      *)
(***************************************************************************)
DescInsert ==
    \E id \in {i \in 0 .. MaxDesc : \A j \in inserted : i < j} : DoInsert(FillRow(id))

SpecDesc == Init /\ [][DescInsert \/ Select \/ Exit \/ Open]_vars

(***************************************************************************)
(* C20: leafNodeInsert into a leaf of n < LEAF_NODE_MAX_CELLS cells at     *)
(* position p: afterwards the leaf has n+1 cells, cells 0..p-1 are as      *)
(* before, cell p holds the new key and the new row, and cells p+1..n are  *)
(* the former cells p..n-1 in the same order.                              *)
(***************************************************************************)
\* The sequence of cells with one more cell at position p (counted from 0).
InsertAt(cells, p, cell) ==
    SubSeq(cells, 1, p) \o <<cell>> \o SubSeq(cells, p + 1, Len(cells))

\* The root leaf before and after leafNodeInsert of a row at the
\* position leafNodeFind gives, n being the number of its cells before.
ShiftedBy(before, after, n, row) ==
    /\ leafNodeNumcells(after) = n + 1
    /\ CellsOf(after, n + 1)
          = InsertAt(CellsOf(before, n), tableFind(Machine, row.id).cursor.cellNum, RowCell(row))

C20_InsertShifts ==
    [][(/\ status = "running"
        /\ status' = "running"
        /\ last'.op = "insert"
        /\ last'.result = "EXECUTE_SUCCESS"
        /\ rootPageNum \in DOMAIN pages
        /\ getNodeType(pages[rootPageNum]) = NODE_LEAF
        /\ leafNodeNumcells(pages[rootPageNum]) < LEAF_NODE_MAX_CELLS)
          => ShiftedBy(pages[rootPageNum], pages'[rootPageNum],
                       leafNodeNumcells(pages[rootPageNum]), last'.row)]_vars

(***************************************************************************)
(* C21: tableFind(key) on a well-formed tree ends at the leaf reached by   *)
(* taking, at each internal node, the child at the smallest index whose    *)
(* key is >= key (right_child when there is none), with cell_num the index *)
(* of key in that leaf when it is present, and otherwise the smallest      *)
(* index whose key is greater than key (num_cells when there is none).     *)
(* It only reads: the cache and the pager are as before.                   *)
(***************************************************************************)
\* The keys of the cells of a leaf buffer, in the order of the cells.
LeafKeySeq(node) == [c \in 1 .. leafNodeNumcells(node) |-> leafNodeKey(node, c - 1)]

\* The tree in the cache is well formed: every node of it is cached, the keys
\* of each leaf are strictly increasing, and the keys of each internal node
\* are strictly increasing and separate the keys of its subtrees.
WellFormed ==
    /\ status = "running"
    /\ rootPageNum \in DOMAIN pages
    /\ \A p \in TreePages :
          IF getNodeType(pages[p]) = NODE_LEAF
          THEN StrictlyIncreasing(LeafKeySeq(pages[p]))
          ELSE ValidChildren(p) /\ InternalOrdered(pages[p])

\* The child the descent takes at an internal node.
DescentChild(node, key) ==
    internalNodeChild(node,
        MinOf({i \in 0 .. internalNodeNumKeys(node) - 1 : ~ULess(internalNodeKey(node, i), key)}
                 \cup {internalNodeNumKeys(node)}))

\* The leaf the descent from page p reaches, through at most d internal nodes.
RECURSIVE DescentLeaf(_, _, _)
DescentLeaf(p, key, d) ==
    IF getNodeType(pages[p]) = NODE_LEAF \/ d = 0 THEN p
    ELSE DescentLeaf(DescentChild(pages[p], key), key, d - 1)

\* The cell of key in a leaf, or the cell where it belongs.
DescentCell(node, key) ==
    IF key \in LeafKeys(node)
    THEN CHOOSE c \in 0 .. leafNodeNumcells(node) - 1 : leafNodeKey(node, c) = key
    ELSE MinOf({c \in 0 .. leafNodeNumcells(node) - 1 : ULess(key, leafNodeKey(node, c))}
                  \cup {leafNodeNumcells(node)})

FindsAt(found, leaf, key) ==
    /\ found.m = Machine
    /\ found.cursor.pageNum = leaf
    /\ found.cursor.cellNum = DescentCell(pages[leaf], key)

MidInsert ==
    /\ status = "running"
    /\ Cardinality(inserted) < MaxRows
    /\ \E leaf \in {Node(Machine,
                         tableFind(Machine, MaxOf(inserted \cup {0}) + 1).cursor.pageNum)} :
          \E id \in {IF leafNodeNumcells(leaf) = LEAF_NODE_MAX_CELLS
                     THEN leafNodeKey(leaf, LEAF_NODE_LEFT_SPLIT_COUNT) - 1
                     ELSE MaxOf(inserted \cup {0}) + KeyStep} :
             DoInsert(FillRow(id))

SpecMid == InitRooted /\ [][MidInsert \/ Select]_vars

(***************************************************************************)
(* C22: createNewRoot(table, right), called as the splits call it: after   *)
(* it page 0 is an internal node with is_root = 1, num_keys = 1, child[0]  *)
(* the newly allocated left page, key[0] the max key of the left child and *)
(* right_child = right; the left page holds the old root's content with    *)
(* is_root = 0; both children have parent_page_num = 0; when the old root  *)
(* was internal its former children, and no other page, have got the left  *)
(* page as parent_page_num; every other page is as before.                 *)
(***************************************************************************)
\* The bytes of a buffer that are not zero.
NonZero(buf) == [x \in {y \in DOMAIN buf : buf[y] # 0} |-> buf[x]]

\* The calls of createNewRoot the program makes from the current state, as
\* [m, right]: leafNodeSplitAndInsert on a root leaf, after the new leaf has
\* been loaded; internalNodeSplitAndInsert on a root with
\* INTERNAL_NODE_MAX_CELLS keys, after internalNodeInsert has incremented
\* num_keys.
RootCalls ==
    IF ~(status = "running" /\ rootPageNum \in DOMAIN pages /\ isNodeRoot(pages[rootPageNum])
           /\ TreePages \subseteq DOMAIN pages)
    THEN {}
    ELSE IF getNodeType(pages[rootPageNum]) = NODE_LEAF
    THEN {[m |-> getPage(Machine, getUnusedPageNum(Machine)),
           right |-> getUnusedPageNum(Machine)] :
             x \in {y \in {0} : leafNodeNumcells(pages[rootPageNum]) > 0}}
    ELSE {[m |-> SetNumKeys(Machine, rootPageNum, INTERNAL_NODE_MAX_CELLS + 1),
           right |-> getUnusedPageNum(Machine)] :
             x \in {y \in {0} : internalNodeNumKeys(pages[rootPageNum]) = INTERNAL_NODE_MAX_CELLS}}

\* The children of the root of the current state, when it is internal.
FormerChildren ==
    IF getNodeType(pages[rootPageNum]) = NODE_INTERNAL THEN Children(pages[rootPageNum]) ELSE {}

\* r is the state createNewRoot(m, right) must give, left being the page
\* number it allocates.
CreatedRoot(m, r, left, right) ==
    /\ Running(r)
    /\ getNodeType(r.pages[rootPageNum]) = NODE_INTERNAL
    /\ isNodeRoot(r.pages[rootPageNum])
    /\ internalNodeNumKeys(r.pages[rootPageNum]) = 1
    /\ GetU32(r.pages[rootPageNum], internalNodeCell(0)) = left
    /\ internalNodeKey(r.pages[rootPageNum], 0) = getNodeMaxKey(r, left).v
    /\ internalNodeRightChild(r.pages[rootPageNum]) = right
    /\ left \notin DOMAIN m.pages
    /\ NonZero(r.pages[left])
          = NonZero(setNodeParent(setNodeRoot(m.pages[rootPageNum], FALSE), rootPageNum))
    /\ nodeParent(r.pages[right]) = rootPageNum
    /\ nodeParent(r.pages[rootPageNum]) = nodeParent(m.pages[rootPageNum])
    /\ \A p \in DOMAIN m.pages \ {rootPageNum, right} :
          NonZero(r.pages[p])
             = NonZero(IF p \in FormerChildren THEN setNodeParent(m.pages[p], left)
                       ELSE m.pages[p])

C22_CreateNewRoot ==
    \A call \in RootCalls :
       CreatedRoot(call.m, createNewRoot(call.m, call.right),
                   getUnusedPageNum(getPage(call.m, call.right)), call.right)

(***************************************************************************)
(* C23: internalNodeInsert on a parent with fewer than                     *)
(* INTERNAL_NODE_MAX_CELLS keys and a valid right child, as the leaf split *)
(* under a root of leaves calls it: afterwards num_keys has grown by one,  *)
(* the children are the former children and the new child, the cell keys   *)
(* are strictly increasing, each key is the largest key of its child, and  *)
(* right_child is the child with the largest key.                          *)
(***************************************************************************)
\* The insert of id splits a leaf under the root, which has room for the
\* new leaf and a valid right child.
AddsChildToRoot(id) ==
    /\ rootPageNum \in DOMAIN pages
    /\ getNodeType(pages[rootPageNum]) = NODE_INTERNAL
    /\ internalNodeNumKeys(pages[rootPageNum]) < INTERNAL_NODE_MAX_CELLS
    /\ ValidChildren(rootPageNum)
    /\ Running(tableFind(Machine, id).m)
    /\ leafNodeNumcells(Node(Machine, tableFind(Machine, id).cursor.pageNum)) = LEAF_NODE_MAX_CELLS
    /\ nodeParent(Node(Machine, tableFind(Machine, id).cursor.pageNum)) = rootPageNum

\* parent is the node internalNodeInsert must leave, ps the cache after it
\* and child the page it was given.
ChildInserted(before, parent, ps, child) ==
    /\ internalNodeNumKeys(parent) = internalNodeNumKeys(before) + 1
    /\ child \notin Children(before)
    /\ Children(parent) = Children(before) \cup {child}
    /\ Children(parent) \subseteq DOMAIN ps
    /\ \A i \in 0 .. internalNodeNumKeys(parent) - 2 :
          ULess(internalNodeKey(parent, i), internalNodeKey(parent, i + 1))
    /\ \A i \in 0 .. internalNodeNumKeys(parent) - 1 :
          internalNodeKey(parent, i) = MaxOf(LeafKeys(ps[GetU32(parent, internalNodeCell(i))]))
    /\ \A c \in Children(parent) :
          MaxOf(LeafKeys(ps[c])) <= MaxOf(LeafKeys(ps[internalNodeRightChild(parent)]))

C23_InternalInsert ==
    [][(/\ status = "running"
        /\ status' = "running"
        /\ last'.op = "insert"
        /\ last'.result = "EXECUTE_SUCCESS"
        /\ AddsChildToRoot(last'.row.id))
          => ChildInserted(pages[rootPageNum], pages'[rootPageNum], pages',
                           getUnusedPageNum(Machine))]_vars

(***************************************************************************)
(* C24: when internalNodeInsert is called on a parent that holds           *)
(* INTERNAL_NODE_MAX_CELLS keys, the child is placed only through          *)
(* internalNodeSplitAndInsert: what the call leaves is what the split has  *)
(* left, the in-place steps that follow it in the function (comparison     *)
(* with the right child, shift, write of the cell) are not executed.       *)
(***************************************************************************)
\* The root is an internal node that is full, with valid children.
FullRoot ==
    /\ status = "running"
    /\ rootPageNum \in DOMAIN pages
    /\ getNodeType(pages[rootPageNum]) = NODE_INTERNAL
    /\ internalNodeNumKeys(pages[rootPageNum]) = INTERNAL_NODE_MAX_CELLS
    /\ ValidChildren(rootPageNum)

Allocations(id) ==
    IF leafNodeNumcells(Node(Machine, tableFind(Machine, id).cursor.pageNum)) < LEAF_NODE_MAX_CELLS
    THEN 0
    ELSE IF isNodeRoot(Node(Machine, tableFind(Machine, id).cursor.pageNum)) THEN 2
    ELSE 1

C26_SelectReadOnly ==
    [][(status = "running" /\ last'.op = "select")
          => /\ status' = "running"
             /\ numPages' = numPages
             /\ \A p \in DOMAIN pages : p \in DOMAIN pages' /\ pages'[p] = pages[p]
             /\ DOMAIN pages' \subseteq DOMAIN pages \cup TreePages'
             /\ dbClose(Machine').disk = dbClose(Machine).disk]_vars


(***************************************************************************)
(* C27: an insert statement that prepareInsert accepts carries the typed   *)
(* integer as its key: the typed integer is in 0..2^32-1, the id of the    *)
(* row to insert is that integer, and after a successful insert it is a    *)
(* key of a leaf.                                                          *)
(***************************************************************************)
\* The integer typed as the id of the line is the 32-bit value key.
TypedIs(line, key) == line.wraps = 0 /\ line.id >= 0 /\ line.id = key

C27_TypedIdStored ==
    last.op = "insert"
       => \A p \in {prepareInsert(last.row)} :
             p.result = "PREPARE_SUCCESS"
                => /\ TypedIs(last.row, p.row.id)
                   /\ last.result = "EXECUTE_SUCCESS" => p.row.id \in StoredKeys

====
